---- MODULE Spec2Model ----
(***************************************************************************)
(* Model of IMDBSuggest.py: IMDBSuggestion.search with its retry and       *)
(* shortening loop, _parse_result, _compare_string, _clean_string and      *)
(* IMDBSearchResult with _get_additional_info.                             *)
(*                                                                         *)
(* A Python str is a sequence of one-character values.  A character of     *)
(* the model is a TLA+ string naming it: "a", " ", "_", "!", and the       *)
(* non-ASCII ones by name ("e_acute", "fi_lig", "sharp_s", "comb_acute").  *)
(***************************************************************************)
EXTENDS Integers, Sequences, FiniteSets, TLC

(***************************************************************************)
(* Program constants (IMDBSuggest.py:29-30, 51, 103).                      *)
(***************************************************************************)
MAX_TRY_COUNT == 3
\* a schedule with a second entry that is not 10
DECREMENT_QUERY_LEN_Typo == <<15, 12, 5>>
DECREMENT_QUERY_LEN == <<15, 10, 5>>
DefaultTop == 99
ApiQueryLen == 20
TagLen == 5

(***************************************************************************)
(* Bounds of the explored inputs.                                          *)
(***************************************************************************)
MaxQueryLen == 22
MaxResults == 2

Min(a, b) == IF a < b THEN a ELSE b
Max(a, b) == IF a > b THEN a ELSE b

(***************************************************************************)
(* Characters.                                                             *)
(***************************************************************************)
LowerLetters == {"a", "c", "e", "f", "i", "n", "p", "t", "x"}
UpperLetters == {"A", "C"}
Digits == {"1"}
\* string.ascii_letters + string.digits + '_' + ' '   (line 58)
valid_chars == LowerLetters \cup UpperLetters \cup Digits \cup {"_", " "}
\* ASCII characters of the model's alphabet
AsciiChars == valid_chars \cup {"!", "$", "("}

\* unicodedata.normalize('NFKD', c) for one character
NFKD(c) ==
    CASE c = "e_acute" -> <<"e", "comb_acute">>
      [] c = "fi_lig"  -> <<"f", "i">>
      [] OTHER         -> <<c>>

\* str.lower() for one character
LowerChar(c) ==
    CASE c = "A" -> "a"
      [] c = "C" -> "c"
      [] OTHER   -> c

RECURSIVE Flatten(_)
Flatten(ss) == IF ss = <<>> THEN <<>> ELSE Head(ss) \o Flatten(Tail(ss))

RECURSIVE Keep(_, _)
Keep(s, S) ==
    IF s = <<>> THEN <<>>
    ELSE IF Head(s) \in S THEN <<Head(s)>> \o Keep(Tail(s), S)
    ELSE Keep(Tail(s), S)

\* s[:n]
Take(s, n) == SubSeq(s, 1, Min(n, Len(s)))

\* s.lower()
Lower(s) == [i \in 1..Len(s) |-> LowerChar(s[i])]

\* s.replace(' ', '_')
ReplaceSpace(s) == [i \in 1..Len(s) |-> IF s[i] = " " THEN "_" ELSE s[i]]

\* s.startswith(p)
StartsWith(s, p) == Len(s) >= Len(p) /\ SubSeq(s, 1, Len(p)) = p

\* _clean_string without the filter of line 232
_clean_string_NoFilter(input) ==
    LET str_normal == Flatten([i \in 1..Len(input) |-> NFKD(input[i])])
    IN  Keep(str_normal, AsciiChars)

(***************************************************************************)
(* _clean_string (lines 223-232): NFKD decomposition, encode to ASCII      *)
(* ignoring what does not encode, keep the characters of valid_chars.      *)
(***************************************************************************)
_clean_string(input) ==
    LET str_normal == Flatten([i \in 1..Len(input) |-> NFKD(input[i])])
        str_decode == Keep(str_normal, AsciiChars)
    IN  Keep(str_decode, valid_chars)

(***************************************************************************)
(* _compare_string (lines 207-221).  The score is kept in hundredths       *)
(* (10000 for 100.00); round(v, 2) rounds to nearest, ties to even.        *)
(* max_length = 0 is a ZeroDivisionError, reported as ZeroDivision.        *)
(***************************************************************************)
ZeroDivision == 0 - 1

RECURSIVE MatchCount(_, _)
MatchCount(x, y) ==
    IF x = <<>> \/ y = <<>> THEN 0
    ELSE (IF Head(x) = Head(y) THEN 1 ELSE 0) + MatchCount(Tail(x), Tail(y))

Round2(num, den) ==
    LET q == (num * 10000) \div den
        r == (num * 10000) % den
    IN  IF 2 * r < den THEN q
        ELSE IF 2 * r > den THEN q + 1
        ELSE IF q % 2 = 0 THEN q ELSE q + 1

_compare_string(string1, string2) ==
    LET x == string1
        y == Lower(_clean_string(string2))
        max_length == Max(Len(x), Len(y))
        match_char_cnt == MatchCount(x, y)
    IN  IF max_length = 0 THEN ZeroDivision
        ELSE Round2(match_char_cnt, max_length)

(***************************************************************************)
(* What the caller may pass to search (lines 60-61).                       *)
(***************************************************************************)
Pattern(p) ==
    CASE p = 1 -> <<"c", "a", "p", "t", "a", "i", "n">>
      [] p = 2 -> <<"C", "a", "p", " ", "e_acute", "!", "_", "1", "fi_lig",
                    "sharp_s", "n">>
      [] OTHER -> <<"!", "sharp_s", " ", "x", "A">>

QueryOf(n, p) == [i \in 1..n |-> Pattern(p)[((i - 1) % Len(Pattern(p))) + 1]]

\* every length of the first pattern; a short, a middle and the longest
\* query of the other two
RawQueries ==
    {QueryOf(n, 1) : n \in 0..MaxQueryLen}
    \cup {QueryOf(n, p) : n \in {2, 12, MaxQueryLen}, p \in 2..3}
Tops == {0 - 5, 0, 1, DefaultTop}

(***************************************************************************)
(* What the suggestion endpoint may answer.  A response body is the text   *)
(*     imdb$ <echo> ( <payload> )                                          *)
(* given by the echoed query, whether the closing character is there, and  *)
(* the payload.  An entry of the results array is a JSON object with the   *)
(* keys in "keys"; the values of absent keys are not read.                 *)
(***************************************************************************)
E_title == [keys |-> {"id", "l", "y", "q"}, id |-> <<"t", "t", "1">>,
            l |-> <<"C", "a", "p", "t", "a", "i", "n">>, y |-> 2011,
            q |-> "feature"]
E_actor == [keys |-> {"id", "l"}, id |-> <<"n", "m", "1">>,
            l |-> <<"C", "a", "p", " ", "e_acute", "!">>, y |-> 0, q |-> ""]
E_nolabel == [keys |-> {"id"}, id |-> <<"t", "t", "1">>, l |-> <<>>,
              y |-> 0, q |-> ""]
EntrySet == {E_title, E_actor, E_nolabel}

Arrays == UNION {[1..n -> EntrySet] : n \in 0..MaxResults}

\* kind: "notjson"  the text is not JSON
\*       "nokey"    JSON without the key 'd' (what the endpoint sends for
\*                  a query without suggestions)
\*       "notarray" JSON object whose 'd' is null
\*       "array"    JSON object whose 'd' is the array d
Payload(kind, d) == [kind |-> kind, d |-> d]
Payloads == {Payload(k, <<>>) : k \in {"notjson", "nokey", "notarray"}}
            \cup {Payload("array", d) : d \in Arrays}
\* the payload of the bodies with another envelope
FewPayloads == {Payload("array", <<E_title>>)}

Body(echo, closed, payload) ==
    [bound |-> TRUE, echo |-> echo, closed |-> closed, payload |-> payload]
\* the local variable response before its first assignment
Unbound ==
    [bound |-> FALSE, echo |-> <<>>, closed |-> FALSE,
     payload |-> Payload("notjson", <<>>)]

\* a query of the length of q that is not q
OtherQuery(q) ==
    IF q = <<>> THEN <<>>
    ELSE <<IF q[1] = "x" THEN "a" ELSE "x">> \o Tail(q)

Echoes(q) ==
    {Take(q, DECREMENT_QUERY_LEN[k]) : k \in 1..Len(DECREMENT_QUERY_LEN)}
    \cup {OtherQuery(q)}

Bodies(q) ==
    {Body(q, TRUE, p) : p \in Payloads}
    \cup {Body(e, TRUE, p) : e \in Echoes(q) \ {q}, p \in FewPayloads}
    \cup {Body(q, FALSE, p) : p \in FewPayloads}

\* the envelope of the body is the one expected for query q
EnvelopeMatches(body, q) == body.echo = q /\ body.closed

(***************************************************************************)
(* What the title page may answer to a detail request.                     *)
(***************************************************************************)
DetailOutcomes == {"failed", "no_markup", "page"}
DefaultRating == "0.0"
PageRating == "8.1"
PageGenre == <<"Action", "Sci-Fi">>

(***************************************************************************)
(* IMDBSearchResult (lines 239-281).  A constructor and a method give the  *)
(* object and the exception that leaves them ("" for none).                *)
(***************************************************************************)
\* the names bound at module level (lines 17-42, 239); the builtins have
\* no name debug either
ModuleGlobals ==
    {"json", "logging", "pprint", "string", "sys", "unicodedata", "warnings",
     "bs", "requests", "MAX_TRY_COUNT", "DECREMENT_QUERY_LEN",
     "IMDB_SUGGESTS_URL", "IMDB_TITLE_URL", "warning_on_one_line",
     "IMDBSuggestion", "IMDBSearchResult"}

\* _get_additional_info with requests.get outside the try of line 273
_get_additional_info_Uncaught(r, o) ==
    IF ~StartsWith(r.id, <<"t", "t">>)
    THEN [obj |-> r, exc |-> "", requested |-> FALSE]
    ELSE IF o = "failed"
         THEN [obj |-> r, exc |-> "RequestException", requested |-> TRUE]
    ELSE [obj |-> r, exc |-> "", requested |-> TRUE]

\* lines 265-281; o is what the title page answers if it is requested.
\* requested tells whether requests.get(url) of line 274 was called.
_get_additional_info(r, o) ==
    IF ~StartsWith(r.id, <<"t", "t">>)
    THEN [obj |-> r, exc |-> "", requested |-> FALSE]
    ELSE IF o = "failed"
         \* requests.get raised; caught at line 279
         THEN [obj |-> r, exc |-> "", requested |-> TRUE]
    ELSE IF "debug" \notin ModuleGlobals
         \* line 275 reads the unbound name debug: NameError, caught at 279
         THEN [obj |-> r, exc |-> "", requested |-> TRUE]
    ELSE IF o = "no_markup"
         \* body.find(...) is None: AttributeError, caught at line 279
         THEN [obj |-> r, exc |-> "", requested |-> TRUE]
    ELSE [obj |-> [r EXCEPT !.rating = PageRating, !.genre = PageGenre],
          exc |-> "", requested |-> TRUE]

\* IMDBSearchResult without the test of line 262
IMDBSearchResult_AlwaysFetch(id, l, y, q, idx, match_percent, fetch_additional_details, o) ==
    LET r == [id |-> id, label |-> l, year |-> y, category |-> q,
              idx |-> idx, genre |-> <<>>, rating |-> DefaultRating,
              match_percent |-> match_percent,
              type |-> IF StartsWith(id, <<"n", "m">>) THEN "Actor"
                       ELSE IF StartsWith(id, <<"t", "t">>) THEN "Title"
                       ELSE ""]
    IN  IF StartsWith(id, <<"t", "t">>)
        THEN [obj |-> r, exc |-> "", requested |-> TRUE]
        ELSE [obj |-> r, exc |-> "", requested |-> FALSE]

\* lines 245-263
IMDBSearchResult(id, l, y, q, idx, match_percent, fetch_additional_details, o) ==
    LET r == [id |-> id, label |-> l, year |-> y, category |-> q,
              idx |-> idx, genre |-> <<>>, rating |-> DefaultRating,
              match_percent |-> match_percent,
              type |-> IF StartsWith(id, <<"n", "m">>) THEN "Actor"
                       ELSE IF StartsWith(id, <<"t", "t">>) THEN "Title"
                       ELSE ""]
    IN  IF fetch_additional_details THEN _get_additional_info(r, o)
        ELSE [obj |-> r, exc |-> "", requested |-> FALSE]

(***************************************************************************)
(* _parse_result (lines 149-205).  self is the record of the instance      *)
(* fields; o[i] is what the title page answers to the detail request of    *)
(* the i-th entry.  The value has the fields imdb_results and              *)
(* imdb_json_response as the call leaves them, the detail requests it      *)
(* issued, and the exception that leaves it ("" when it returns            *)
(* imdb_results).                                                          *)
(***************************************************************************)
EmptyDict == [kind |-> "dict", d |-> <<>>]

\* the for loop of lines 182-203 from index idx on
RECURSIVE ParseLoop(_, _, _, _, _)
ParseLoop(self, d, idx, st, o) ==
    IF idx >= Len(d) THEN st
    ELSE IF self.top # 0 - 1 /\ idx > self.top THEN st
    ELSE
      LET suggestion == d[idx + 1]
          y == IF "y" \in suggestion.keys THEN suggestion.y ELSE 0
          q == IF "q" \in suggestion.keys THEN suggestion.q ELSE "unknown"
      IN  IF "l" \notin suggestion.keys
          THEN [st EXCEPT !.exc = "KeyError"]
          ELSE
            LET match_percent ==
                    _compare_string(self.orginal_query, suggestion.l)
            IN  IF match_percent = ZeroDivision
                THEN [st EXCEPT !.exc = "ZeroDivisionError"]
                ELSE IF "id" \notin suggestion.keys
                THEN [st EXCEPT !.exc = "KeyError"]
                ELSE
                  LET c == IMDBSearchResult(suggestion.id, suggestion.l, y, q,
                               idx + 1, match_percent,
                               self.fetch_additional_details, o[idx + 1])
                      details ==
                          IF c.requested
                          THEN Append(st.details,
                                      [id |-> suggestion.id, idx |-> idx + 1,
                                       outcome |-> o[idx + 1]])
                          ELSE st.details
                  IN  IF c.exc # ""
                      THEN [st EXCEPT !.exc = c.exc, !.details = details]
                      ELSE ParseLoop(self, d, idx + 1,
                               [st EXCEPT
                                  !.imdb_results = Append(@, c.obj),
                                  !.details = details], o)

\* response[start_pos:-1] is the payload exactly when the text before it
\* has start_pos characters and one character follows it; any other cut
\* of these bodies is not JSON
Sliced(self, response) ==
    LET start_pos == TagLen + Len(self.query) + 1
    IN  IF TagLen + Len(response.echo) + 1 = start_pos /\ response.closed
        THEN response.payload
        ELSE Payload("notjson", <<>>)

_parse_result(self, response, o) ==
    LET st0 == [imdb_results |-> <<>>, imdb_json_response |-> EmptyDict,
                details |-> <<>>, exc |-> ""]
        payload == Sliced(self, response)
    IN  IF payload.kind \in {"notjson", "nokey"}
        \* json.loads raised, or ['d'] raised KeyError; caught at line 174
        THEN st0
        ELSE IF payload.kind = "notarray"
        \* enumerate(None) at line 182
        THEN [st0 EXCEPT !.imdb_json_response = payload,
                         !.exc = "TypeError"]
        ELSE ParseLoop(self, payload.d, 0,
                       [st0 EXCEPT !.imdb_json_response = payload], o)

(***************************************************************************)
(* State.  The fields of the IMDBSuggestion instance (lines 50-58), the    *)
(* local variables of search, the position in search, and what the world   *)
(* saw of the call: its arguments, the suggestion requests and the detail  *)
(* requests issued, the number of results each attempt parsed, and how     *)
(* the call ended.  earlier is how the earlier search calls on the         *)
(* instance ended, history what the endpoint answered to the requests of   *)
(* a call that is not the first one.                                       *)
(***************************************************************************)
VARIABLES
    top, debug, query, imdb_results, orginal_query, imdb_json_response,
    fetch_additional_details,
    cat_path, char_index, try_count, response, search_results,
    pc, call, requests, detail_requests, parsed, outcome,
    earlier, history

fields == <<top, debug, query, imdb_results, orginal_query,
            imdb_json_response, fetch_additional_details>>
locals == <<cat_path, char_index, try_count, response, search_results>>
vars == <<fields, locals, pc, call, requests, detail_requests, parsed,
          outcome, earlier, history>>

NoOutcome == [kind |-> "none", exc |-> "", where |-> "", value |-> <<>>]
Returned(v) == [kind |-> "returned", exc |-> "", where |-> "", value |-> v]
Raised(e, w) == [kind |-> "raised", exc |-> e, where |-> w, value |-> <<>>]

\* __init__ (lines 50-58); search has not been called
Init ==
    /\ top = DefaultTop
    /\ debug = FALSE
    /\ query = <<>>
    /\ imdb_results = <<>>
    /\ orginal_query = <<>>
    /\ imdb_json_response = EmptyDict
    /\ fetch_additional_details = FALSE
    /\ cat_path = ""
    /\ char_index = ""
    /\ try_count = 0
    /\ response = Unbound
    /\ search_results = <<>>
    /\ pc = "idle"
    /\ call = [query |-> <<>>, category |-> "All", top |-> DefaultTop,
               fetch_additional_details |-> FALSE, debug |-> FALSE]
    /\ requests = <<>>
    /\ detail_requests = <<>>
    /\ parsed = <<>>
    /\ outcome = NoOutcome
    /\ earlier = <<>>
    /\ history = <<>>

\* CatPath with the final else of line 83 taking the path of All
CatPath_NoElse(category) ==
    IF category = "Titles" THEN "/titles/" ELSE ""

\* lines 79-84: the path of the category, "ValueError" for the raise
CatPath(category) ==
    IF category = "All" THEN ""
    ELSE IF category = "Titles" THEN "/titles/"
    ELSE "ValueError"

\* CorrectTop without the correction of lines 88-90
CorrectTop_Unchecked(t) == t

\* lines 88-90
CorrectTop(t) == IF t <= 0 THEN DefaultTop ELSE t

\* OriginalQuery taken after the truncation of line 103
OriginalQuery_Truncated(q) == Take(Lower(_clean_string(q)), ApiQueryLen)

\* lines 99-103: the query kept for scoring and the query sent
OriginalQuery(q) == Lower(_clean_string(q))
\* ApiQuery without the [:20] of line 103
ApiQuery_NoTruncate(q) == ReplaceSpace(OriginalQuery(q))

ApiQuery(q) == ReplaceSpace(Take(OriginalQuery(q), ApiQueryLen))

\* search without the assignment of line 94
Search_KeepFetch(q, category, t, fetch, dbg) ==
    /\ pc = "idle"
    /\ call' = [query |-> q, category |-> category, top |-> t,
                fetch_additional_details |-> fetch, debug |-> dbg]
    /\ IF CatPath(category) = "ValueError"
       THEN /\ pc' = "raised"
            /\ outcome' = Raised("ValueError", "search:84")
            /\ UNCHANGED <<fields, locals>>
       ELSE /\ cat_path' = CatPath(category)
            /\ debug' = dbg
            /\ top' = CorrectTop(t)
            /\ orginal_query' = OriginalQuery(q)
            /\ query' = ApiQuery(q)
            /\ UNCHANGED <<imdb_results, imdb_json_response, response,
                           search_results, fetch_additional_details>>
            /\ IF ApiQuery(q) = <<>>
               \* self.query[0] of the empty string
               THEN /\ pc' = "raised"
                    /\ outcome' = Raised("IndexError", "search:107")
                    /\ UNCHANGED <<char_index, try_count>>
               ELSE /\ char_index' = ApiQuery(q)[1]
                    /\ try_count' = 0
                    /\ pc' = "request"
                    /\ UNCHANGED outcome
    /\ UNCHANGED <<requests, detail_requests, parsed, earlier, history>>

(***************************************************************************)
(* search, lines 60-110: the guard clauses and the preparation of the      *)
(* query, up to the first pass of the loop.                                *)
(***************************************************************************)
Search(q, category, t, fetch, dbg) ==
    /\ pc = "idle"
    /\ call' = [query |-> q, category |-> category, top |-> t,
                fetch_additional_details |-> fetch, debug |-> dbg]
    /\ IF CatPath(category) = "ValueError"
       THEN /\ pc' = "raised"
            /\ outcome' = Raised("ValueError", "search:84")
            /\ UNCHANGED <<fields, locals>>
       ELSE /\ cat_path' = CatPath(category)
            /\ debug' = dbg
            /\ top' = CorrectTop(t)
            /\ fetch_additional_details' = fetch
            /\ orginal_query' = OriginalQuery(q)
            /\ query' = ApiQuery(q)
            /\ UNCHANGED <<imdb_results, imdb_json_response, response,
                           search_results>>
            /\ IF ApiQuery(q) = <<>>
               \* self.query[0] of the empty string
               THEN /\ pc' = "raised"
                    /\ outcome' = Raised("IndexError", "search:107")
                    /\ UNCHANGED <<char_index, try_count>>
               ELSE /\ char_index' = ApiQuery(q)[1]
                    /\ try_count' = 0
                    /\ pc' = "request"
                    /\ UNCHANGED outcome
    /\ UNCHANGED <<requests, detail_requests, parsed, earlier, history>>

(***************************************************************************)
(* search, lines 112-125: the request of one attempt.  requests.get        *)
(* either raises a RequestException, which is logged and leaves response   *)
(* as it was, or returns a body.                                           *)
(***************************************************************************)
\* Url with the bucket taken from the query before line 103 replaced its
\* spaces
Url_BucketFromOriginal(failed) ==
    [cat_path |-> cat_path, char_index |-> orginal_query[1],
     query |-> query, failed |-> failed]

Url(failed) ==
    [cat_path |-> cat_path, char_index |-> char_index, query |-> query,
     failed |-> failed]

\* history with the answer of the endpoint to one more request; only a
\* call on an instance that was used before keeps it, to be compared with
\* the same call on a new instance
Answered(answer) ==
    IF earlier # <<>> THEN Append(history, answer) ELSE history

Request ==
    /\ pc = "request"
    /\ \/ /\ requests' = Append(requests, Url(TRUE))
          /\ UNCHANGED response
          /\ history' = Answered([failed |-> TRUE, body |-> Unbound])
       \/ \E b \in Bodies(query) :
             /\ requests' = Append(requests, Url(FALSE))
             /\ response' = b
             /\ history' = Answered([failed |-> FALSE, body |-> b])
    /\ pc' = "parse"
    /\ UNCHANGED <<fields, cat_path, char_index, try_count, search_results,
                   call, detail_requests, parsed, outcome, earlier>>

(***************************************************************************)
(* search, line 127: response.text and _parse_result, with the detail      *)
(* requests of the results it constructs.                                  *)
(***************************************************************************)
Self ==
    [top |-> top, debug |-> debug, query |-> query,
     orginal_query |-> orginal_query,
     fetch_additional_details |-> fetch_additional_details]

\* what the title page may answer to the requests of one _parse_result of
\* the array d: an answer for every entry whose id starts with tt; with
\* enrichment off, and for the other entries, no request is expected and
\* one would fail
DetailAnswers(d) ==
    IF fetch_additional_details
    THEN {o \in [1..Len(d) -> DetailOutcomes] :
             \A i \in 1..Len(d) :
                 ~StartsWith(d[i].id, <<"t", "t">>) => o[i] = "failed"}
    ELSE {[i \in 1..Len(d) |-> "failed"]}

Parse ==
    /\ pc = "parse"
    /\ IF ~response.bound
       \* response was never assigned
       THEN /\ pc' = "raised"
            /\ outcome' = Raised("UnboundLocalError", "search:127")
            /\ UNCHANGED <<imdb_results, imdb_json_response, search_results,
                           detail_requests, parsed>>
       ELSE \E o \in DetailAnswers(Sliced(Self, response).d) :
              LET res == _parse_result(Self, response, o)
              IN  /\ imdb_results' = res.imdb_results
                  /\ imdb_json_response' = res.imdb_json_response
                  /\ detail_requests' = detail_requests \o res.details
                  /\ IF res.exc # ""
                     THEN /\ pc' = "raised"
                          /\ outcome' = Raised(res.exc, "_parse_result")
                          /\ UNCHANGED <<search_results, parsed>>
                     ELSE /\ search_results' = res.imdb_results
                          /\ parsed' = Append(parsed, Len(res.imdb_results))
                          /\ pc' = "check"
                          /\ UNCHANGED outcome
    /\ UNCHANGED <<top, debug, query, orginal_query,
                   fetch_additional_details, cat_path, char_index, try_count,
                   response, call, requests, earlier, history>>

(***************************************************************************)
(* search, lines 131-145: shorten the query and retry.                     *)
(***************************************************************************)
\* the inner loop of lines 132-139; DECREMENT_QUERY_LEN[try_count] is
\* evaluated before try_count < MAX_TRY_COUNT
RECURSIVE InnerLoop(_, _)
InnerLoop(q, tc) ==
    IF tc >= Len(DECREMENT_QUERY_LEN)
    THEN [exc |-> "IndexError", try_count |-> tc]
    ELSE IF Len(q) < DECREMENT_QUERY_LEN[tc + 1] /\ tc < MAX_TRY_COUNT
    THEN InnerLoop(q, tc + 1)
    ELSE [exc |-> "", try_count |-> tc]

\* the condition of line 131
ShouldRetry(results, tc) == Len(results) = 0 /\ tc < MAX_TRY_COUNT

\* Shorten without the try_count += 1 of line 145
Shorten_NoIncrement ==
    /\ pc = "check"
    /\ ShouldRetry(search_results, try_count)
    /\ LET l == InnerLoop(query, try_count)
       IN  IF l.exc # ""
           THEN /\ pc' = "raised"
                /\ outcome' = Raised(l.exc, "search:135")
                /\ try_count' = l.try_count
                /\ UNCHANGED query
           ELSE /\ query' = Take(query, DECREMENT_QUERY_LEN[l.try_count + 1])
                /\ try_count' = l.try_count
                /\ pc' = "request"
                /\ UNCHANGED outcome
    /\ UNCHANGED <<top, debug, imdb_results, orginal_query,
                   imdb_json_response, fetch_additional_details, cat_path,
                   char_index, response, search_results, call, requests,
                   detail_requests, parsed, earlier, history>>

Shorten ==
    /\ pc = "check"
    /\ ShouldRetry(search_results, try_count)
    /\ LET l == InnerLoop(query, try_count)
       IN  IF l.exc # ""
           THEN /\ pc' = "raised"
                /\ outcome' = Raised(l.exc, "search:135")
                /\ try_count' = l.try_count
                /\ UNCHANGED query
           ELSE /\ query' = Take(query, DECREMENT_QUERY_LEN[l.try_count + 1])
                /\ try_count' = l.try_count + 1
                /\ pc' = "request"
                /\ UNCHANGED outcome
    /\ UNCHANGED <<top, debug, imdb_results, orginal_query,
                   imdb_json_response, fetch_additional_details, cat_path,
                   char_index, response, search_results, call, requests,
                   detail_requests, parsed, earlier, history>>

(***************************************************************************)
(* search, lines 142-147: leave the loop and return search_results.        *)
(***************************************************************************)
Return ==
    /\ pc = "check"
    /\ ~ShouldRetry(search_results, try_count)
    /\ pc' = "done"
    /\ outcome' = Returned(search_results)
    /\ UNCHANGED <<fields, locals, call, requests, detail_requests, parsed,
                   earlier, history>>

\* The calls explored.  Every query is searched in category All with the
\* default top, with and without enrichment, and with a category that is
\* neither All nor Titles with every other argument.  The queries of
\* CapQueries (one, two and four attempts) are searched with every top as
\* well, in category Titles, which only changes the path of the URL, and
\* with debug, which only prints (lines 179-180).
CapQueries == {QueryOf(n, 1) : n \in {1, 6, MaxQueryLen}}

CallArgs ==
    [query : RawQueries, category : {"All"}, top : {DefaultTop},
     fetch_additional_details : BOOLEAN, debug : {FALSE}]
    \cup [query : RawQueries, category : {"Bogus"}, top : Tops,
          fetch_additional_details : BOOLEAN, debug : {FALSE}]
    \cup [query : CapQueries, category : {"All"}, top : Tops,
          fetch_additional_details : BOOLEAN, debug : {FALSE}]
    \cup [query : CapQueries, category : {"Titles", "All"},
          top : {DefaultTop}, fetch_additional_details : {FALSE},
          debug : BOOLEAN]

Call ==
    \E a \in CallArgs :
        Search(a.query, a.category, a.top, a.fetch_additional_details,
               a.debug)

Next == Call \/ Request \/ Parse \/ Shorten \/ Return

Spec == Init /\ [][Next]_vars

TypeOK ==
    /\ pc \in {"idle", "request", "parse", "check", "done", "raised"}
    /\ try_count \in 0..MAX_TRY_COUNT
    /\ top \in Nat \ {0}
    /\ Len(parsed) <= Len(requests)

(***************************************************************************)
(* The methods _clean_string and _compare_string called on their own, on   *)
(* a new instance, with every string up to MaxStrLen characters of a       *)
(* small alphabet.  call is the method and its arguments, outcome what it  *)
(* returns or raises; neither method touches a field.                      *)
(***************************************************************************)
MaxStrLen == 3

Strings(S, n) == UNION {[1..k -> S] : k \in 0..n}

CleanChars ==
    {"a", "A", " ", "_", "1", "!", "e_acute", "fi_lig", "sharp_s",
     "comb_acute"}
QueryChars == {"a", "c"}
LabelChars == {"a", "C", "!"}

\* _clean_string(x), lines 223-232
CleanString(x) ==
    /\ pc = "idle"
    /\ call' = [method |-> "_clean_string", args |-> <<x>>]
    /\ outcome' = Returned(_clean_string(x))
    /\ pc' = "done"
    /\ UNCHANGED <<fields, locals, requests, detail_requests, parsed,
                   earlier, history>>

\* _compare_string(string1, string2), lines 207-221
CompareString(string1, string2) ==
    /\ pc = "idle"
    /\ call' = [method |-> "_compare_string", args |-> <<string1, string2>>]
    /\ IF _compare_string(string1, string2) = ZeroDivision
       THEN /\ outcome' = Raised("ZeroDivisionError", "_compare_string:221")
            /\ pc' = "raised"
       ELSE /\ outcome' = Returned(_compare_string(string1, string2))
            /\ pc' = "done"
    /\ UNCHANGED <<fields, locals, requests, detail_requests, parsed,
                   earlier, history>>

CallClean == \E x \in Strings(CleanChars, MaxStrLen) : CleanString(x)

CallCompare ==
    \E string1 \in Strings(QueryChars, MaxStrLen),
       string2 \in Strings(LabelChars, MaxStrLen) :
          CompareString(string1, string2)

NextMethods == CallClean \/ CallCompare

SpecMethods == Init /\ [][NextMethods]_vars

(***************************************************************************)
(* Properties.                                                             *)
(***************************************************************************)
Last(s) == s[Len(s)]

\* the call has ended
Ended == pc \in {"done", "raised"}

\* C1: a call to search either returns a list or raises the configuration
\* error of a bad category; no other exception reaches the caller.
C1_OnlyConfigurationError ==
    pc = "raised" =>
        /\ outcome.exc = "ValueError"
        /\ call.category \notin {"All", "Titles"}

\* C2: a call whose every attempt parsed zero results, for a query of any
\* normalized length from 1 on, ends by returning the empty list.
C2_ZeroResultsReturnEmpty ==
    ( /\ Ended
      /\ Len(requests) >= 1
      /\ Len(parsed) = Len(requests)
      /\ \A i \in 1..Len(parsed) : parsed[i] = 0 )
    => outcome = Returned(<<>>)

\* C3: a transport failure of the suggestion request on any attempt, the
\* first included, is absorbed: the attempt counts as zero parsed results
\* and search does not abort with an exception.
C3_TransportFailureAbsorbed ==
    \A i \in 1..Len(requests) :
        (requests[i].failed /\ (i < Len(requests) \/ pc # "parse"))
        => (i <= Len(parsed) /\ parsed[i] = 0)

\* C4: for every top >= 1 the list search returns has at most top results.
C4_AtMostTop ==
    (pc = "done" /\ call.top >= 1) => Len(outcome.value) <= call.top

\* C5: for every category other than All and Titles search raises the
\* configuration error, and no suggestion request and no detail request is
\* issued before it does.
C5_BadCategoryRaisesBeforeRequest ==
    (pc # "idle" /\ call.category \notin {"All", "Titles"})
    => /\ pc = "raised"
       /\ outcome.exc = "ValueError"
       /\ requests = <<>>
       /\ detail_requests = <<>>

C5_Witness ==
    /\ pc = "raised"
    /\ call.category = "Bogus"
    /\ call.fetch_additional_details
    /\ Len(call.query) > ApiQueryLen

\* C6: for a response body whose envelope is not the expected
\* imdb$<query>(...) or whose payload is not JSON with the results array,
\* _parse_result returns the empty list and no error leaves it.
C6_BadBodyParsesEmpty ==
    ( /\ pc = "check" \/ (pc = "raised" /\ outcome.where = "_parse_result")
      /\ \/ ~EnvelopeMatches(response, query)
         \/ response.payload.kind # "array" )
    => (pc = "check" /\ search_results = <<>>)

\* C7: when enrichment is requested and the detail fetch or the markup
\* extraction fails, the result is still constructed, with rating 0.0 and
\* an empty genre list, and no exception of the enrichment reaches the
\* caller of search.
C7_EnrichmentFailureKeepsDefaults ==
    /\ \A k \in 1..Len(detail_requests) :
          detail_requests[k].outcome \in {"failed", "no_markup"}
          => LET i == detail_requests[k].idx
             IN  /\ i <= Len(imdb_results)
                 /\ imdb_results[i].rating = DefaultRating
                 /\ imdb_results[i].genre = <<>>
                 /\ pc = "done" => outcome.value[i] = imdb_results[i]
    /\ pc = "raised" =>
          outcome.exc \notin {"RequestException", "NameError",
                              "AttributeError"}

C7_Witness ==
    /\ pc = "done"
    /\ \E k \in 1..Len(detail_requests) :
          detail_requests[k].outcome = "failed"
    /\ \E k \in 1..Len(detail_requests) :
          detail_requests[k].outcome = "no_markup"

\* C8: when enrichment is requested, the identifier of the result starts
\* with tt and the detail page is fetched with the rating and genre markup
\* present, the constructed result carries the rating and the genres of
\* the page.
C8_EnrichmentAttachesPageValues ==
    \A k \in 1..Len(detail_requests) :
        (detail_requests[k].outcome = "page"
         /\ detail_requests[k].idx <= Len(imdb_results))
        => LET r == imdb_results[detail_requests[k].idx]
           IN  r.rating = PageRating /\ r.genre = PageGenre

\* C9: in a call with fetch_additional_details=False no detail request is
\* ever issued, whatever the number of results and of attempts.
C9_NoDetailRequestWhenDisabled ==
    ~call.fetch_additional_details => detail_requests = <<>>

C9_Witness ==
    /\ pc = "done"
    /\ ~call.fetch_additional_details
    /\ Len(requests) > 1
    /\ Len(outcome.value) = MaxResults
    /\ \A i \in 1..Len(outcome.value) : outcome.value[i].type = "Title"

\* C10: the list search returns is a prefix of the results array the
\* endpoint sent on the last attempt, in its order, and the i-th returned
\* result has rank index i.
C10_PrefixOfLastAttempt ==
    pc = "done" =>
        LET arr == IF Last(requests).failed
                      \/ response.payload.kind # "array"
                   THEN <<>>
                   ELSE response.payload.d
        IN  /\ Len(outcome.value) <= Len(arr)
            /\ \A i \in 1..Len(outcome.value) :
                  /\ outcome.value[i].idx = i
                  /\ outcome.value[i].id = arr[i].id
                  /\ outcome.value[i].label = arr[i].l

\* the characters of a string
Range(s) == {s[i] : i \in 1..Len(s)}

\* C11: in every suggestion request of a search call, the first attempt
\* and every shortened retry, the query segment of the URL has at most 20
\* characters and no space.
C11_QuerySegmentShortNoSpace ==
    \A i \in 1..Len(requests) :
        /\ Len(requests[i].query) <= 20
        /\ " " \notin Range(requests[i].query)

\* a query with a space and 20 characters after cleaning, and one cut to
\* 20, each retried to the end
C11_Witness ==
    /\ pc = "done"
    /\ Len(requests) = MAX_TRY_COUNT + 1
    /\ Len(requests[1].query) = 20
    /\ \/ " " \in Range(orginal_query)
       \/ Len(orginal_query) > 20

\* the answers of the title page to the detail requests logged, as the
\* argument o of _parse_result for an array of n entries
LoggedAnswers(n) ==
    [i \in 1..n |->
        IF \E k \in 1..Len(detail_requests) : detail_requests[k].idx = i
        THEN detail_requests[
                 CHOOSE k \in 1..Len(detail_requests) :
                     detail_requests[k].idx = i].outcome
        ELSE "failed"]

\* what _parse_result gives for the response parsed last in a call made
\* with the default top
ParsedWithDefaultTop ==
    _parse_result([Self EXCEPT !.top = DefaultTop], response,
                  LoggedAnswers(Len(response.payload.d)))

\* C12: for every top <= 0 search does not raise because of it and
\* behaves as a call with the default top: the instance keeps the default
\* cap, every attempt parses the results the default top parses, so the
\* same requests follow, and the same list is returned.
C12_NonPositiveTopIsDefault ==
    (pc # "idle" /\ call.top <= 0 /\ call.category \in {"All", "Titles"})
    => /\ top = DefaultTop
       /\ pc = "raised" => outcome.exc # "ValueError"
       /\ pc \in {"check", "done"} =>
             search_results = ParsedWithDefaultTop.imdb_results
       /\ pc = "done" => outcome.value = ParsedWithDefaultTop.imdb_results

C12_Witness ==
    /\ pc = "done"
    /\ call.top = 0 - 5
    /\ Len(requests) > 1
    /\ Len(outcome.value) = MaxResults

\* C15: whenever search retries after zero results, the query of the retry
\* is strictly shorter than the query of the attempt before it, so the
\* same query is never requested twice in one call.
C15_RetryStrictlyShorter ==
    \A i \in 2..Len(requests) :
        Len(requests[i].query) < Len(requests[i - 1].query)

\* C16 as stated: one call to search issues at most 3 suggestion requests
\* (MAX_TRY_COUNT), whatever the query and the answers.
C16_AtMostThreeRequests == Len(requests) <= 3

\* C16 as amended: one call to search issues at most 4 suggestion
\* requests, the first attempt and at most MAX_TRY_COUNT = 3 retries.
C16_AtMostFourRequests == Len(requests) <= MAX_TRY_COUNT + 1

C16_Witness ==
    /\ pc = "done"
    /\ Len(requests) = MAX_TRY_COUNT + 1
    /\ outcome = Returned(<<>>)

\* C17: for a query whose endpoint-bound form is longer than 15
\* characters, the queries requested after the first attempt have the
\* lengths 15, then 10, then 5, each a prefix of the query before it; when
\* every attempt parses zero results all three are requested.
C17_ScheduleFifteenTenFive ==
    (Len(requests) >= 1 /\ Len(requests[1].query) > 15)
    => /\ Len(requests) <= 4
       /\ \A i \in 2..Len(requests) :
             /\ Len(requests[i].query) = <<15, 10, 5>>[i - 1]
             /\ requests[i].query =
                    SubSeq(requests[i - 1].query, 1, <<15, 10, 5>>[i - 1])
       /\ ( /\ Ended
            /\ Len(parsed) = Len(requests)
            /\ \A i \in 1..Len(parsed) : parsed[i] = 0 )
          => (pc = "done" /\ Len(requests) = 4)

C17_Witness ==
    /\ pc = "done"
    /\ Len(requests) = 4
    /\ Len(requests[1].query) = 18
    /\ \A i \in 1..Len(parsed) : parsed[i] = 0

\* C18: in every suggestion request of a search call, every shortened
\* retry included, the first-character bucket of the URL is the first
\* character of the query segment of that request.
C18_BucketIsFirstCharacter ==
    \A i \in 1..Len(requests) :
        /\ requests[i].query # <<>>
        /\ requests[i].char_index = requests[i].query[1]

\* a query that starts with a space, retried
C18_Witness ==
    /\ pc = "done"
    /\ Len(requests) >= 2
    /\ orginal_query[1] = " "
    /\ Last(requests).char_index = "_"

\* the query of the call, normalized and in lower case, as the caller
\* computes it
NormalizedQuery == Lower(_clean_string(call.query))
\* the positions at which two strings have the same character
SamePositions(x, y) ==
    {i \in 1..Min(Len(x), Len(y)) : x[i] = y[i]}
Longer(x, y) == Max(Len(x), Len(y))
Abs(n) == IF n < 0 THEN 0 - n ELSE n

\* C19 as stated: the match score of every returned result equals
\* (positions with equal characters) / (length of the longer string) x 100
\* for the normalized lower-case label and the original normalized
\* lower-case query.  match_percent is in hundredths.
C19_ScoreIsExactRatio ==
    pc = "done" =>
        \A i \in 1..Len(outcome.value) :
            LET y == Lower(_clean_string(outcome.value[i].label))
            IN  outcome.value[i].match_percent * Longer(NormalizedQuery, y)
                = Cardinality(SamePositions(NormalizedQuery, y)) * 10000

\* C19 as amended: the match score of every returned result is that ratio
\* rounded to two decimal places (within half a hundredth of it), the
\* query compared being the original normalized lower-case query before
\* the truncation to 20 characters and before any shortening, also for
\* results of a shortened retry.
C19_ScoreIsRoundedRatio ==
    pc = "done" =>
        \A i \in 1..Len(outcome.value) :
            LET y == Lower(_clean_string(outcome.value[i].label))
            IN  2 * Abs(outcome.value[i].match_percent
                          * Longer(NormalizedQuery, y)
                        - Cardinality(SamePositions(NormalizedQuery, y))
                          * 10000)
                <= Longer(NormalizedQuery, y)

C19_Witness ==
    /\ pc = "done"
    /\ Len(requests) > 1
    /\ Len(NormalizedQuery) > ApiQueryLen
    /\ Len(outcome.value) >= 1
    /\ outcome.value[1].match_percent \notin {0, 10000}

\* the method m was called and has ended
Called(m) == Ended /\ call.method = m

\* C13: for every input string x, _clean_string(x) has only characters
\* of A-Z, a-z, 0-9, '_' and space, and cleaning it again changes nothing.
C13_CleanIsValidAndIdempotent ==
    Called("_clean_string") =>
        /\ outcome.kind = "returned"
        /\ Range(outcome.value) \subseteq
               LowerLetters \cup UpperLetters \cup Digits \cup {"_", " "}
        /\ _clean_string(outcome.value) = outcome.value

\* an accented letter, a ligature and a special character in one input
C13_Witness ==
    /\ Called("_clean_string")
    /\ {"e_acute", "fi_lig", "!"} \subseteq Range(call.args[1])
    /\ outcome.value = <<"e", "f", "i">>

\* C14: for all pairs of strings, the empty one and a label that cleans
\* to the empty string included, _compare_string returns a score between
\* 0 and 100; 100 when the cleaned lowercase label equals the query, 0
\* when no position matches.
C14_ScoreInRange ==
    Called("_compare_string") =>
        LET string1 == call.args[1]
            label == Lower(_clean_string(call.args[2]))
        IN  /\ outcome.kind = "returned"
            /\ outcome.value \in 0..10000
            /\ label = string1 => outcome.value = 10000
            /\ SamePositions(string1, label) = {} => outcome.value = 0

(***************************************************************************)
(* Several search calls on one instance.  When a call has ended, the next  *)
(* one starts with the fields as the ended call left them; the local       *)
(* variables of search are new in every call.                              *)
(***************************************************************************)
MaxCalls == 2

\* a call that returns results when the endpoint has some, with
\* enrichment; one of up to three attempts in another category, with
\* another top and debug; one with a category that raises; one with the empty query
ReuseArgs ==
    {[query |-> QueryOf(1, 1), category |-> "All", top |-> 1,
      fetch_additional_details |-> TRUE, debug |-> FALSE],
     [query |-> QueryOf(12, 1), category |-> "Titles", top |-> 0 - 5,
      fetch_additional_details |-> FALSE, debug |-> TRUE],
     [query |-> QueryOf(2, 2), category |-> "Bogus", top |-> DefaultTop,
      fetch_additional_details |-> FALSE, debug |-> FALSE],
     [query |-> <<>>, category |-> "All", top |-> DefaultTop,
      fetch_additional_details |-> TRUE, debug |-> FALSE]}

CallReuse ==
    \E a \in ReuseArgs :
        Search(a.query, a.category, a.top, a.fetch_additional_details,
               a.debug)

\* how the call ended: with results, with the empty list, or raising
EndedAs ==
    IF outcome.kind = "raised" THEN "failed"
    ELSE IF outcome.value = <<>> THEN "empty"
    ELSE "successful"

\* the caller goes on to the next call
Again ==
    /\ Ended
    /\ Len(earlier) < MaxCalls - 1
    /\ earlier' = Append(earlier, EndedAs)
    /\ pc' = "idle"
    /\ cat_path' = ""
    /\ char_index' = ""
    /\ try_count' = 0
    /\ response' = Unbound
    /\ search_results' = <<>>
    /\ requests' = <<>>
    /\ detail_requests' = <<>>
    /\ parsed' = <<>>
    /\ history' = <<>>
    /\ outcome' = NoOutcome
    /\ UNCHANGED <<fields, call>>

NextReuse == CallReuse \/ Request \/ Parse \/ Shorten \/ Return \/ Again

SpecReuse == Init /\ [][NextReuse]_vars

(***************************************************************************)
(* The same call on a new instance: search (lines 60-147) as a function    *)
(* of its arguments and of the answers in history and detail_requests.     *)
(* s holds the fields and local variables of the new instance and the      *)
(* requests it has issued.                                                 *)
(***************************************************************************)
FreshEnd(s, details, o) ==
    [requests |-> s.requests, detail_requests |-> details, outcome |-> o]

\* the loop of lines 111-145 from the next request on
RECURSIVE FreshLoop(_)
FreshLoop(s) ==
    IF Len(s.requests) >= Len(history)
    \* the new instance asks for an answer the endpoint never gave
    THEN FreshEnd(s, s.details, NoOutcome)
    ELSE
      LET answer == history[Len(s.requests) + 1]
          resp == IF answer.failed THEN s.response ELSE answer.body
          t == [s EXCEPT
                  !.response = resp,
                  !.requests =
                      Append(@, [cat_path |-> s.cat_path,
                                 char_index |-> s.char_index,
                                 query |-> s.self.query,
                                 failed |-> answer.failed])]
      IN  IF ~resp.bound
          THEN FreshEnd(t, s.details,
                        Raised("UnboundLocalError", "search:127"))
          ELSE
            LET res == _parse_result(s.self, resp,
                           LoggedAnswers(Len(Sliced(s.self, resp).d)))
                details == s.details \o res.details
            IN  IF res.exc # ""
                THEN FreshEnd(t, details, Raised(res.exc, "_parse_result"))
                ELSE IF ~ShouldRetry(res.imdb_results, s.try_count)
                THEN FreshEnd(t, details, Returned(res.imdb_results))
                ELSE
                  LET l == InnerLoop(s.self.query, s.try_count)
                  IN  IF l.exc # ""
                      THEN FreshEnd(t, details, Raised(l.exc, "search:135"))
                      ELSE FreshLoop(
                             [t EXCEPT
                                !.self.query =
                                    Take(@, DECREMENT_QUERY_LEN[
                                                l.try_count + 1]),
                                !.try_count = l.try_count + 1,
                                !.details = details])

\* search(a.query, a.category, a.top, ...) on a new instance
Fresh(a) ==
    LET s == [self |-> [top |-> CorrectTop(a.top), debug |-> a.debug,
                        query |-> ApiQuery(a.query),
                        orginal_query |-> OriginalQuery(a.query),
                        fetch_additional_details |->
                            a.fetch_additional_details],
              cat_path |-> CatPath(a.category), char_index |-> "",
              try_count |-> 0, response |-> Unbound, requests |-> <<>>,
              details |-> <<>>]
    IN  IF CatPath(a.category) = "ValueError"
        THEN FreshEnd(s, <<>>, Raised("ValueError", "search:84"))
        ELSE IF ApiQuery(a.query) = <<>>
        THEN FreshEnd(s, <<>>, Raised("IndexError", "search:107"))
        ELSE FreshLoop([s EXCEPT !.char_index = ApiQuery(a.query)[1]])

\* C20: what a search call does, the requests it issues and what it
\* returns or raises, depends only on its arguments and on the answers of
\* the endpoint during the call: after any earlier search calls on the
\* instance, successful, empty or failed, it is what the same call with
\* the same answers does on a new instance.
C20_SameAsOnNewInstance ==
    (Ended /\ earlier # <<>>) =>
        /\ requests = Fresh(call).requests
        /\ detail_requests = Fresh(call).detail_requests
        /\ outcome = Fresh(call).outcome

\* after a successful call with enrichment, a call without it that
\* retries with the shortened query and returns results
C20_Witness ==
    /\ earlier = <<"successful">>
    /\ imdb_results # <<>>
    /\ pc = "done"
    /\ ~call.fetch_additional_details
    /\ Len(requests) = 2
    /\ outcome.value # <<>>

====
